---- MODULE Spec2Model ----
(***************************************************************************)
(* Model of the Noir_agent conversational assistant:                       *)
(*   - the External Capability Gateway (calendar_mcp.py, meet_mcp.py),     *)
(*   - the booking proxy book_meeting_tool (graph.py),                     *)
(*   - the routing / handler / tool loop of the LangGraph graph (graph.py).*)
(*   - the project registry lookups (tools/implementation.py),             *)
(*   - orchestrate_query (orchestrator.py) and chat_endpoint (main.py).    *)
(* Texts whose characters the code inspects (classifier answers,           *)
(* timestamps, names, tags) are sequences of one-character strings.        *)
(***************************************************************************)
EXTENDS Integers, Sequences, FiniteSets, TLC

(***************************************************************************)
(* Bounds                                                                  *)
(***************************************************************************)
\* longest session history explored (number of Turns)
MaxMsgs == 4

(***************************************************************************)
(* Character-level text operations                                         *)
(***************************************************************************)
UpperLetters == <<"A", "B", "C", "D", "E", "F", "G", "H", "I", "J", "K", "L", "M",
                  "N", "O", "P", "Q", "R", "S", "T", "U", "V", "W", "X", "Y", "Z">>
LowerLetters == <<"a", "b", "c", "d", "e", "f", "g", "h", "i", "j", "k", "l", "m",
                  "n", "o", "p", "q", "r", "s", "t", "u", "v", "w", "x", "y", "z">>

\* str.lower() on one character
LowerChar(c) ==
    IF \E i \in 1..Len(UpperLetters) : UpperLetters[i] = c
    THEN LowerLetters[CHOOSE i \in 1..Len(UpperLetters) : UpperLetters[i] = c]
    ELSE c

\* str.lower()
Lower(s) == [i \in 1..Len(s) |-> LowerChar(s[i])]

Whitespace == {" ", "\n", "\t"}

\* str.strip(): drop leading and trailing whitespace
Strip(s) ==
    LET keep == {i \in 1..Len(s) : s[i] \notin Whitespace}
    IN  IF keep = {} THEN <<>>
        ELSE LET lo == CHOOSE i \in keep : \A j \in keep : i <= j
                 hi == CHOOSE i \in keep : \A j \in keep : j <= i
             IN  SubSeq(s, lo, hi)

\* Python's `sub in s` on strings
Contains(s, sub) ==
    \E i \in 1..(Len(s) - Len(sub) + 1) : SubSeq(s, i, i + Len(sub) - 1) = sub

(***************************************************************************)
(* Capability names                                                        *)
(***************************************************************************)
\* calendar_mcp.py: allowed_tools
allowed_tools == {"list-calendars", "list-events", "create-event", "update-event", "delete-event"}

\* meet_mcp.py: allowed_tools
meet_allowed_tools == {"create_meeting", "list_meetings", "get_meeting"}

\* names kept by the callers' read-only filter (graph.py)
ReadOnlyNames == {"list-calendars", "list-events"}

\* provider capabilities that change the calendar
MutatingNames == {"create-event", "update-event", "delete-event"}

\* what a provider process may offer on discovery: the allow-listed names and others
ProviderOffer(fn) ==
    IF fn = "calendar"
    THEN allowed_tools \cup {"search-events"}
    ELSE meet_allowed_tools \cup {"delete_meeting"}

\* the ways `await asyncio.wait_for(client.get_tools(), timeout=60.0)` can end
DiscoveryOutcomes == {"ok", "timeout", "error"}

\* discovery without the allow-list filter
FilterAllowed_unfiltered(fn, tools) == tools

\* the allow-list filter applied to the offered tools
FilterAllowed(fn, tools) ==
    {t \in tools : t \in (IF fn = "calendar" THEN allowed_tools ELSE meet_allowed_tools)}

VARIABLES
    creds,          \* credentials.json exists next to the sources
    node_entry,     \* the provider entry point (index.js) exists
    d_pc,           \* position inside get_calendar_tools / get_meet_tools
    d_fn,           \* which discovery function is running: "calendar" | "meet"
    d_caller,       \* who awaits the result
    d_command,      \* command chosen to launch the provider
    d_attempts,     \* client.get_tools() calls made by the current call
    d_launched,     \* a provider process launch was attempted by the current call
    d_outcome,      \* how the discovery handshake ended
    d_offered,      \* what the provider offered
    d_tools,        \* the returned capability set
    b_pc,           \* position inside book_meeting_tool
    b_caller,       \* who called book_meeting_tool
    b_args,         \* the arguments of the current call
    b_payload,      \* the create-event payload built by the call (<<>> before it is built)
    b_tmp,          \* temporary scripts present on disk
    b_proc,         \* how the side process ended
    b_result,       \* the value returned (<<>> while there is none)
    pc,             \* the graph node about to run ("END" between turns)
    messages,       \* AgentState.messages of the session (checkpointed)
    trace,          \* AgentState.trace of the session (checkpointed)
    active_agent,   \* AgentState.active_agent of the session (checkpointed)
    all_tools,      \* the tools registered with the ToolNode when the graph was built
    cls_text,       \* <<text>> answered by the classification call of this turn
    t_pc,           \* position of a direct call of listProjects / explainProject
    t_fn,           \* which of the two is called
    t_arg,          \* its argument
    t_result,       \* <<value>> it returned (<<>> while there is none)
    groq_key,       \* whether GROQ_API_KEY is set in the environment
    o_pc,           \* position inside orchestrate_query
    o_caller,       \* who called orchestrate_query
    o_initial,      \* <<initial_response>> of the first model call
    o_tool_result,  \* <<tool_result_json_str>> once the tool step has run
    o_trace,        \* <<trace>> once it is built
    o_final,        \* final_answer
    o_result,       \* <<value>> orchestrate_query returned
    o_llm_calls,    \* model calls made by this call of orchestrate_query
    o_invoked,      \* names of the tools this call invoked
    e_pc,           \* position inside chat_endpoint
    e_request,      \* <<request>> being served
    e_envelope,     \* <<envelope>> chat_endpoint returns
    k_cur,          \* the invocation of the graph that is scheduled
    k_thread,       \* thread_id of each invocation ("none" when the slot is free)
    k_parked,       \* the state of each invocation that is not scheduled
    k_in,           \* the state the scheduled invocation had when it was scheduled
    k_store,        \* MemorySaver: the checkpoint last written for each thread_id by
                    \* an invocation that has been descheduled or has returned
    k_started       \* number of invocations started so far

gatewayVars == <<d_pc, d_fn, d_caller, d_command, d_attempts, d_launched,
                 d_outcome, d_offered, d_tools>>
bookVars == <<b_pc, b_caller, b_args, b_payload, b_tmp, b_proc, b_result>>
envVars == <<creds, node_entry>>
graphVars == <<pc, messages, trace, active_agent, all_tools, cls_text>>
toolVars == <<t_pc, t_fn, t_arg, t_result>>
orchCallVars == <<o_pc, o_caller, o_initial, o_tool_result, o_trace, o_final, o_result,
                  o_llm_calls, o_invoked>>
chatVars == <<e_pc, e_request, e_envelope>>
orchVars == <<groq_key, orchCallVars, chatVars>>
storeVars == <<k_cur, k_thread, k_parked, k_in, k_store, k_started>>
vars == <<envVars, storeVars, toolVars, orchVars, gatewayVars, bookVars, graphVars>>

(***************************************************************************)
(* get_calendar_tools / get_meet_tools                                     *)
(***************************************************************************)
GatewayIdle ==
    /\ d_pc = "idle" /\ d_fn = "none" /\ d_caller = "none" /\ d_command = "none"
    /\ d_attempts = 0 /\ d_launched = FALSE /\ d_outcome = "none"
    /\ d_offered = {} /\ d_tools = {}

\* the coroutine object is dropped once its caller has the result
GatewayReset ==
    /\ d_pc' = "idle"
    /\ d_fn' = "none"
    /\ d_caller' = "none"
    /\ d_command' = "none"
    /\ d_attempts' = 0
    /\ d_launched' = FALSE
    /\ d_outcome' = "none"
    /\ d_offered' = {}
    /\ d_tools' = {}

\* entry of the coroutine
D_Call(fn, caller) ==
    /\ d_pc = "idle"
    /\ d_pc' = "check_creds"
    /\ d_fn' = fn
    /\ d_caller' = caller
    /\ d_command' = "none"
    /\ d_attempts' = 0
    /\ d_launched' = FALSE
    /\ d_outcome' = "none"
    /\ d_offered' = {}
    /\ d_tools' = {}

\* if not os.path.exists(creds_path): return []
D_CheckCreds ==
    /\ d_pc = "check_creds"
    /\ IF ~creds
       THEN /\ d_pc' = "returned"
            /\ d_tools' = {}
       ELSE /\ d_pc' = "check_entry"
            /\ UNCHANGED d_tools
    /\ UNCHANGED <<d_fn, d_caller, d_command, d_attempts, d_launched, d_outcome, d_offered>>
    /\ UNCHANGED <<envVars, storeVars, toolVars, orchVars, bookVars, graphVars>>

\* get_calendar_tools: command = "npx.cmd" if the entry point is missing, else "node"
calendar_command_no_fallback(entry) == "node"

calendar_command(entry) == IF ~entry THEN "npx.cmd" ELSE "node"

\* if not os.path.exists(node_entry): calendar falls back to npx, meet returns []
D_CheckEntry ==
    /\ d_pc = "check_entry"
    /\ IF d_fn = "calendar"
       THEN /\ d_command' = calendar_command(node_entry)
            /\ d_pc' = "connect"
            /\ UNCHANGED d_tools
       ELSE IF ~node_entry
            THEN /\ d_pc' = "returned"
                 /\ d_tools' = {}
                 /\ UNCHANGED d_command
            ELSE /\ d_command' = "node"
                 /\ d_pc' = "connect"
                 /\ UNCHANGED d_tools
    /\ UNCHANGED <<d_fn, d_caller, d_attempts, d_launched, d_outcome, d_offered>>
    /\ UNCHANGED <<envVars, storeVars, toolVars, orchVars, bookVars, graphVars>>

\* the handshake without the catch-all `except Exception`
DiscoveryResult_no_catch_all(fn, outcome, offered) ==
    CASE outcome = "ok"      -> [pc |-> "returned", tools |-> FilterAllowed(fn, offered)]
      [] outcome = "timeout" -> [pc |-> "returned", tools |-> {}]
      [] OTHER               -> [pc |-> "raised", tools |-> {}]

\* what the try / except around the discovery handshake returns
DiscoveryResult(fn, outcome, offered) ==
    CASE outcome = "ok"      -> [pc |-> "returned", tools |-> FilterAllowed(fn, offered)]
      [] outcome = "timeout" -> [pc |-> "returned", tools |-> {}]
      [] OTHER               -> [pc |-> "returned", tools |-> {}]

\* tools = await asyncio.wait_for(client.get_tools(), timeout=60.0), inside try / except
D_Connect ==
    /\ d_pc = "connect"
    /\ \E outcome \in DiscoveryOutcomes, offered \in SUBSET ProviderOffer(d_fn) :
          LET r == DiscoveryResult(d_fn, outcome, offered)
          IN  /\ d_outcome' = outcome
              /\ d_offered' = (IF outcome = "ok" THEN offered ELSE {})
              /\ d_pc' = r.pc
              /\ d_tools' = r.tools
    /\ d_attempts' = d_attempts + 1
    /\ d_launched' = TRUE
    /\ UNCHANGED <<d_fn, d_caller, d_command>>
    /\ UNCHANGED <<envVars, storeVars, toolVars, orchVars, bookVars, graphVars>>

\* the caller of a direct call takes the result
D_ReturnDirect ==
    /\ d_pc \in {"returned", "raised"}
    /\ d_caller = "direct"
    /\ GatewayReset
    /\ UNCHANGED <<envVars, storeVars, toolVars, orchVars, bookVars, graphVars>>

D_DirectCall ==
    /\ \E fn \in {"calendar", "meet"} : D_Call(fn, "direct")
    /\ UNCHANGED <<envVars, storeVars, toolVars, orchVars, bookVars, graphVars>>

(***************************************************************************)
(* book_meeting_tool                                                       *)
(***************************************************************************)
TsSeconds == <<"2", "0", "2", "6", "-", "0", "2", "-", "2", "5", "T", "1", "4", ":", "0", "0", ":", "0", "0">>
TsMinutes == <<"2", "0", "2", "6", "-", "0", "2", "-", "2", "6", "T", "0", "9", ":", "3", "0">>
OffPlus5 == <<"+", "0", "5", ":", "0", "0">>
OffMinus5 == <<"-", "0", "5", ":", "0", "0">>
OffMinus8 == <<"-", "0", "8", ":", "0", "0">>
OffZero == <<"+", "0", "0", ":", "0", "0">>

\* UTC designators and offsets a caller may put after the time
TsSuffixes == {<<>>, <<"Z">>, OffPlus5, OffZero, OffMinus5, OffMinus8}

\* the ISO 8601 timestamps the selection capability may pass as start_time / end_time
Timestamps == {base \o suffix : base \in {TsSeconds, TsMinutes}, suffix \in TsSuffixes}

\* the fixed local offset (Asia/Karachi is UTC+5)
LocalOffset == OffPlus5

\* a normalization that appends the local offset to every timestamp
add_tz_always_appends(ts) == ts \o LocalOffset

\* def add_tz(ts)
add_tz(ts) ==
    IF ~Contains(ts, <<"+">>) /\ ~Contains(ts, <<"Z">>)
    THEN ts \o LocalOffset
    ELSE ts

BookNames == {"Jane"}
BookEmails == {"jane@x.com"}

\* every argument record book_meeting_tool can be called with
BookArgs ==
    [name : BookNames, email : BookEmails, start_time : Timestamps, end_time : Timestamps]

\* payload = {...}
BuildPayload(args) ==
    [account     |-> "normal",
     calendarId  |-> "primary",
     summary     |-> <<"Meeting with ", args.name>>,
     description |-> "",
     start       |-> add_tz(args.start_time),
     end         |-> add_tz(args.end_time),
     attendees   |-> << [email |-> args.email, optional |-> FALSE,
                         responseStatus |-> "needsAction"] >>,
     timeZone    |-> "Asia/Karachi"]

\* json.dumps of a boolean
JsonBoolToken(b) == IF b THEN "true" ELSE "false"

\* the bare names a Python expression can use for constants
PyConstantNames == {"True", "False", "None"}

\* The script embeds json.dumps(payload) as a Python expression
\* (arguments={json.dumps(payload)}); it evaluates only when every bare token is
\* a Python name.
ArgumentsEvaluate(payload) ==
    \A i \in 1..Len(payload.attendees) :
        JsonBoolToken(payload.attendees[i].optional) \in PyConstantNames

\* how launching the isolated script can go, as seen from subprocess.run
\*   launch_failed  : subprocess.run itself raises (no "python" executable)
\*   abnormal_exit  : the interpreter dies outside run()'s try (import error, kill)
\*   connect_failed : stdio_client / session.initialize raises inside the try
\*   connected      : the session to the provider is initialized
LaunchOutcomes == {"launch_failed", "abnormal_exit", "connect_failed", "connected"}

\* how session.call_tool("create-event", ...) can go once it is made
CallOutcomes == {"created", "call_raised", "call_is_error"}

\* what the isolated script does: the side process's end as b_proc
ScriptEnd(payload, launch, call) ==
    CASE launch = "launch_failed"  -> "launch_failed"
      [] launch = "abnormal_exit"  -> "abnormal_exit"
      [] launch = "connect_failed" -> "connect_failed"
      [] OTHER -> IF ~ArgumentsEvaluate(payload) THEN "name_error" ELSE call

\* returncode of the side process: every exception inside run() is caught and printed
ReturnCode(proc) == IF proc = "abnormal_exit" THEN 1 ELSE 0

\* return json.dumps({"status": "success" if result.returncode == 0 else "error", ...})
BookingReturn(proc) ==
    [status     |-> IF ReturnCode(proc) = 0 THEN "success" ELSE "error",
     mcp_output |-> proc]

\* json.dumps({"status": "error", "message": "credentials.json not found. ..."})
CredsMissingReturn == [status |-> "error", mcp_output |-> "credentials.json not found"]

BookIdle ==
    /\ b_pc = "idle" /\ b_caller = "none" /\ b_args = <<>> /\ b_payload = <<>>
    /\ b_tmp = 0 /\ b_proc = "none" /\ b_result = <<>>

\* the call frame is dropped once the caller has the result; files stay as they are
BookReset ==
    /\ b_pc' = "idle"
    /\ b_caller' = "none"
    /\ b_args' = <<>>
    /\ b_payload' = <<>>
    /\ b_proc' = "none"
    /\ b_result' = <<>>
    /\ UNCHANGED b_tmp

\* entry of book_meeting_tool
B_Call(args, caller) ==
    /\ b_pc = "idle"
    /\ b_pc' = "payload"
    /\ b_caller' = caller
    /\ b_args' = <<args>>
    /\ b_payload' = <<>>
    /\ b_proc' = "none"
    /\ b_result' = <<>>
    /\ UNCHANGED b_tmp

\* a check that finds the credential artifact whether or not it is there
creds_path_exists_unchecked(present) == TRUE

\* os.path.exists(creds_path)
creds_path_exists(present) == present

\* a clean-up that leaves the file on disk
os_remove_skipped(files) == files

\* finally: os.remove(path)
os_remove(files) == files - 1

\* payload = {...}; if not os.path.exists(creds_path): return error
B_Payload ==
    /\ b_pc = "payload"
    /\ b_payload' = <<BuildPayload(b_args[1])>>
    /\ IF ~creds_path_exists(creds)
       THEN /\ b_pc' = "returned"
            /\ b_result' = <<CredsMissingReturn>>
       ELSE /\ b_pc' = "mkstemp"
            /\ UNCHANGED b_result
    /\ UNCHANGED <<b_caller, b_args, b_tmp, b_proc>>
    /\ UNCHANGED <<envVars, storeVars, toolVars, orchVars, gatewayVars, graphVars>>

\* fd, path = tempfile.mkstemp(suffix=".py")
B_MkTemp ==
    /\ b_pc = "mkstemp"
    /\ b_tmp' = b_tmp + 1
    /\ b_pc' = "write"
    /\ UNCHANGED <<b_caller, b_args, b_payload, b_proc, b_result>>
    /\ UNCHANGED <<envVars, storeVars, toolVars, orchVars, gatewayVars, graphVars>>

\* with os.fdopen(fd, 'w') as f: f.write(isolated_script)   (finally: os.remove(path))
B_Write ==
    /\ b_pc = "write"
    /\ \E ok \in BOOLEAN :
          IF ok
          THEN /\ b_pc' = "run"
               /\ UNCHANGED b_tmp
          ELSE /\ b_pc' = "raised"
               /\ b_tmp' = os_remove(b_tmp)
    /\ UNCHANGED <<b_caller, b_args, b_payload, b_proc, b_result>>
    /\ UNCHANGED <<envVars, storeVars, toolVars, orchVars, gatewayVars, graphVars>>

\* result = subprocess.run(["python", path], ...); return json.dumps(...)
\* (finally: os.remove(path))
B_Run ==
    /\ b_pc = "run"
    /\ \E launch \in LaunchOutcomes, call \in CallOutcomes :
          LET proc == ScriptEnd(b_payload[1], launch, call)
          IN  /\ b_proc' = proc
              /\ IF proc = "launch_failed"
                 THEN /\ b_pc' = "raised"
                      /\ UNCHANGED b_result
                 ELSE /\ b_pc' = "returned"
                      /\ b_result' = <<BookingReturn(proc)>>
    /\ b_tmp' = os_remove(b_tmp)
    /\ UNCHANGED <<b_caller, b_args, b_payload>>
    /\ UNCHANGED <<envVars, storeVars, toolVars, orchVars, gatewayVars, graphVars>>

\* a direct caller takes the result (or the exception)
B_ReturnDirect ==
    /\ b_pc \in {"returned", "raised"}
    /\ b_caller = "direct"
    /\ BookReset
    /\ UNCHANGED <<envVars, storeVars, toolVars, orchVars, gatewayVars, graphVars>>

B_DirectCall ==
    /\ \E args \in BookArgs : B_Call(args, "direct")
    /\ UNCHANGED <<envVars, storeVars, toolVars, orchVars, gatewayVars, graphVars>>

(***************************************************************************)
(* The graph: identify_intent -> handler -> tools -> handler -> END        *)
(***************************************************************************)
\* portfolio_tools
portfolio_tools == {"get_profile_tool", "list_projects_tool", "explain_project_tool",
                    "get_availability_tool", "analyze_job_fit_tool"}

BookTool == "book_meeting_tool"

\* what a user may send
MsgQuestion == "What are your top React projects?"
MsgDetails == "Can we meet tomorrow at 2pm? I'm Jane, jane@x.com"
MsgAffirm == "yes go ahead"
UserTexts == {MsgQuestion, MsgDetails, MsgAffirm, "no", "cancel"}

\* the visible text the language capability may produce
TextNone == ""
TextPlain == "Which interests you more?"
TextRestate == "I have you down for Feb 26th at 2:00 PM PKT. Should I go ahead and lock this in?"
AIContents == {TextNone, TextPlain, TextRestate}

\* the fixed reply of calendar_chatbot when it has no tools
TextUnavailable == "I'm sorry, I cannot access the calendar right now because the credentials are not set up."

UserMsg(u) == [role |-> "user", content |-> u, tool_calls |-> <<>>, name |-> "", status |-> ""]
AIMsg(c, calls) == [role |-> "ai", content |-> c, tool_calls |-> calls, name |-> "", status |-> ""]
ToolMsg(n, st) == [role |-> "tool", content |-> "result", tool_calls |-> <<>>, name |-> n, status |-> st]

\* the booking arguments the selection capability passes inside the graph
GraphBookArgs ==
    {a \in BookArgs : /\ a.start_time \in {TsSeconds, TsSeconds \o OffMinus5}
                      /\ a.end_time = TsSeconds \o OffPlus5}

\* the argument objects the selection capability can attach to a request for tool n
ArgsFor(n) == IF n = BookTool THEN {<<a>> : a \in GraphBookArgs} ELSE {<<>>}

\* the requests a language capability bound to `bound` can make
ToolCallsOf(bound) ==
    {<<[name |-> n, args |-> a]>> : n \in bound, a \in UNION {ArgsFor(m) : m \in bound}}

\* responses of llm.bind_tools(bound).invoke(...): text, a capability request, or both;
\* a request is only explored while the history bound leaves room for its result
LLMRepliesUpTo(bound, msgs, max) ==
    {[content |-> c, tool_calls |-> <<>>] : c \in AIContents}
    \cup
    (IF Len(msgs) + 3 <= max
     THEN {[content |-> c, tool_calls |-> tc] :
              c \in AIContents,
              tc \in {t \in ToolCallsOf(bound) : t[1].args \in ArgsFor(t[1].name)}}
     ELSE {})

LLMReplies(bound, msgs) == LLMRepliesUpTo(bound, msgs, MaxMsgs)

KwCalendar == <<"c", "a", "l", "e", "n", "d", "a", "r">>
KwPortfolio == <<"p", "o", "r", "t", "f", "o", "l", "i", "o">>

\* texts the classification call may answer
ClassifierTexts ==
    { KwCalendar,
      KwPortfolio,
      <<>>,
      <<"C", "a", "l", "e", "n", "d", "a", "r">>,
      <<" ", "C", "A", "L", "E", "N", "D", "A", "R", "\n">>,
      <<"P", "o", "r", "t", "f", "o", "l", "i", "o", ".">>,
      <<"b", "a", "n", "a", "n", "a">>,
      <<"c", "a", "l", " ", "e", "n", "d", "a", "r">>,
      <<"c", "a", "l", "e", "n", "d", "a">>,
      <<"t", "h", "e", " ", "c", "a", "l", "e", "n", "d", "a", "r", " ", "a", "g", "e", "n", "t">>,
      <<"p", "o", "r", "t", "f", "o", "l", "i", "o", ",", " ", "n", "o", "t", " ",
        "c", "a", "l", "e", "n", "d", "a", "r">> }

\* a router that looks for 'portfolio' and falls back to the scheduling mode
identify_intent_default_calendar(text) ==
    LET decision == Strip(Lower(text))
    IN  IF Contains(decision, KwPortfolio) THEN "portfolio" ELSE "calendar"

\* decision = response.content.lower().strip(); 'calendar' in decision
identify_intent(text) ==
    LET decision == Strip(Lower(text))
    IN  IF Contains(decision, KwCalendar) THEN "calendar" ELSE "portfolio"

\* an edge that sends every turn to the informational handler
route_decision_always_portfolio(agent) == "portfolio_chatbot"

\* def route_decision(state)
route_decision(agent) ==
    IF agent = "calendar" THEN "calendar_chatbot" ELSE "portfolio_chatbot"

\* def should_continue(state)
should_continue(msgs) ==
    IF msgs[Len(msgs)].tool_calls # <<>> THEN "tools" ELSE "END"

\* an edge that hands every tool result to the informational handler
return_to_agent_always_portfolio(agent) == "portfolio_chatbot"

\* def return_to_agent(state)
return_to_agent(agent) ==
    IF agent = "calendar" THEN "calendar_chatbot" ELSE "portfolio_chatbot"

\* a handler that binds every discovered provider capability
read_only_mcp_tools_unfiltered(tools) == tools

\* read_only_mcp_tools = [t for t in tools if t.name in ["list-calendars", "list-events"]]
read_only_mcp_tools(tools) == {t \in tools : t \in ReadOnlyNames}

\* state.get("trace", {}) of a fresh session
EmptyTrace ==
    [active_agent |-> "absent", intent_detected |-> "absent",
     tool_selected |-> "absent", tool_args |-> <<>>]

\* the trace update both handlers make after the language capability answered
UpdateTrace(tr, agentName, reply) ==
    IF reply.tool_calls # <<>>
    THEN [tr EXCEPT !.active_agent = agentName,
                    !.intent_detected = "Tool Execution",
                    !.tool_selected = reply.tool_calls[1].name,
                    !.tool_args = <<reply.tool_calls[1].args>>]
    ELSE [tr EXCEPT !.active_agent = agentName,
                    !.intent_detected = "Direct Answer"]

GraphUnbuilt ==
    /\ pc = "unbuilt" /\ messages = <<>> /\ trace = EmptyTrace
    /\ active_agent = "none" /\ all_tools = {} /\ cls_text = <<>>

\* create_portfolio_graph: cal_tools = await get_calendar_tools()
G_Build ==
    /\ pc = "unbuilt"
    /\ D_Call("calendar", "build")
    /\ pc' = "building"
    /\ UNCHANGED <<messages, trace, active_agent, all_tools, cls_text>>
    /\ UNCHANGED <<envVars, storeVars, toolVars, orchVars, bookVars>>

\* all_tools = portfolio_tools + read_only_mcp_tools + [book_meeting_tool]; compile
G_BuildDone ==
    /\ pc = "building"
    /\ d_pc = "returned"
    /\ all_tools' = portfolio_tools \cup read_only_mcp_tools(d_tools) \cup {BookTool}
    /\ pc' = "END"
    /\ GatewayReset
    /\ UNCHANGED <<messages, trace, active_agent, cls_text>>
    /\ UNCHANGED <<envVars, storeVars, toolVars, orchVars, bookVars>>

\* app.ainvoke({"messages": [HumanMessage(...)]}, config): add_messages appends;
\* a turn is only started while a history of at most `max` Turns has room for it
G_RequestUpTo(max) ==
    /\ pc = "END"
    /\ Len(messages) + 2 <= max
    /\ \E u \in UserTexts : messages' = Append(messages, UserMsg(u))
    /\ pc' = "identify_intent"
    /\ UNCHANGED <<trace, active_agent, all_tools, cls_text>>
    /\ UNCHANGED <<envVars, storeVars, toolVars, orchVars, gatewayVars, bookVars>>

G_Request == G_RequestUpTo(MaxMsgs)

\* identify_intent, then the conditional edge route_decision
G_IdentifyIntent ==
    /\ pc = "identify_intent"
    /\ \E text \in ClassifierTexts :
          /\ cls_text' = <<text>>
          /\ active_agent' = identify_intent(text)
          /\ pc' = route_decision(identify_intent(text))
    /\ UNCHANGED <<messages, trace, all_tools>>
    /\ UNCHANGED <<envVars, storeVars, toolVars, orchVars, gatewayVars, bookVars>>

\* portfolio_chatbot, then the conditional edge should_continue
G_PortfolioUpTo(max) ==
    /\ pc = "portfolio_chatbot"
    /\ \E reply \in LLMRepliesUpTo(portfolio_tools, messages, max) :
          /\ messages' = Append(messages, AIMsg(reply.content, reply.tool_calls))
          /\ trace' = UpdateTrace(trace, "Portfolio Agent", reply)
          /\ pc' = should_continue(Append(messages, AIMsg(reply.content, reply.tool_calls)))
    /\ cls_text' = <<>>
    /\ UNCHANGED <<active_agent, all_tools>>
    /\ UNCHANGED <<envVars, storeVars, toolVars, orchVars, gatewayVars, bookVars>>

G_Portfolio == G_PortfolioUpTo(MaxMsgs)

\* calendar_chatbot up to: tools = await get_calendar_tools()
G_CalendarDiscover ==
    /\ pc = "calendar_chatbot"
    /\ D_Call("calendar", "calendar_chatbot")
    /\ pc' = "calendar_await"
    /\ cls_text' = <<>>
    /\ UNCHANGED <<messages, trace, active_agent, all_tools>>
    /\ UNCHANGED <<envVars, storeVars, toolVars, orchVars, bookVars>>

\* calendar_agent_tools = read_only_mcp_tools + [book_meeting_tool]
calendar_agent_tools(tools) == read_only_mcp_tools(tools) \cup {BookTool}

\* calendar_chatbot from the discovery result on, then should_continue
G_CalendarRespond ==
    /\ pc = "calendar_await"
    /\ d_pc = "returned"
    /\ IF calendar_agent_tools(d_tools) = {}
       THEN /\ messages' = Append(messages, AIMsg(TextUnavailable, <<>>))
            /\ trace' = [trace EXCEPT !.active_agent = "Calendar Agent"]
            /\ pc' = "END"
       ELSE \E reply \in LLMReplies(calendar_agent_tools(d_tools), messages) :
            /\ messages' = Append(messages, AIMsg(reply.content, reply.tool_calls))
            /\ trace' = UpdateTrace(trace, "Calendar Agent", reply)
            /\ pc' = should_continue(Append(messages, AIMsg(reply.content, reply.tool_calls)))
    /\ GatewayReset
    /\ UNCHANGED <<active_agent, all_tools, cls_text>>
    /\ UNCHANGED <<envVars, storeVars, toolVars, orchVars, bookVars>>

\* the ways a registered tool other than the booking proxy can end
ToolStatuses(n) == IF n \in ReadOnlyNames THEN {"success", "error"} ELSE {"success"}

\* ToolNode(all_tools): run the requested tool, append its ToolMessage, return_to_agent
G_Tools ==
    /\ pc = "tools"
    /\ LET call == messages[Len(messages)].tool_calls[1]
       IN  IF call.name \notin all_tools
           THEN /\ messages' = Append(messages, ToolMsg(call.name, "not_found"))
                /\ pc' = return_to_agent(active_agent)
                /\ UNCHANGED bookVars
           ELSE IF call.name = BookTool
           THEN /\ B_Call(call.args[1], "tools")
                /\ pc' = "tools_await"
                /\ UNCHANGED messages
           ELSE /\ \E st \in ToolStatuses(call.name) :
                      messages' = Append(messages, ToolMsg(call.name, st))
                /\ pc' = return_to_agent(active_agent)
                /\ UNCHANGED bookVars
    /\ UNCHANGED <<trace, active_agent, all_tools, cls_text>>
    /\ UNCHANGED <<envVars, storeVars, toolVars, orchVars, gatewayVars>>

\* ToolNode: book_meeting_tool returned (or raised, which ToolNode turns into an
\* error ToolMessage); append the ToolMessage, return_to_agent
G_ToolsBooked ==
    /\ pc = "tools_await"
    /\ b_pc \in {"returned", "raised"}
    /\ messages' = Append(messages,
                          ToolMsg(BookTool, IF b_pc = "raised" THEN "raised"
                                            ELSE b_result[1].status))
    /\ pc' = return_to_agent(active_agent)
    /\ BookReset
    /\ UNCHANGED <<trace, active_agent, all_tools, cls_text>>
    /\ UNCHANGED <<envVars, storeVars, toolVars, orchVars, gatewayVars>>

(***************************************************************************)
(* tools/implementation.py: the project registry and its two lookups       *)
(***************************************************************************)
\* the registry, in its order; names and tags are character sequences because
\* the lookups lower-case and compare them
PROJECTS_DATA == <<
    [name |-> <<"U", "p", "t", "i", "m", "e", "G", "u", "a", "r", "d">>,
     description |-> "Decentralized uptime monitoring with crypto-verified validators.",
     tags |-> <<<<"R", "e", "a", "c", "t">>,
               <<"E", "x", "p", "r", "e", "s", "s">>,
               <<"N", "o", "d", "e", ".", "j", "s">>,
               <<"P", "o", "s", "t", "g", "r", "e", "S", "Q", "L">>,
               <<"W", "e", "b", "S", "o", "c", "k", "e", "t", "s">>,
               <<"P", "r", "i", "s", "m", "a">>>>,
     architecture_notes |-> "Built tracking website status in real-time with historical analytics."],
    [name |-> <<"G", "o", "P", "l", "a", "n", "I", "t">>,
     description |-> "AI travel itineraries using real-time flight and attraction data.",
     tags |-> <<<<"R", "e", "a", "c", "t">>,
               <<"N", "o", "d", "e", ".", "j", "s">>,
               <<"E", "x", "p", "r", "e", "s", "s">>,
               <<"G", "e", "m", "i", "n", "i", " ", "A", "P", "I">>,
               <<"I", "n", "n", "g", "e", "s", "t">>,
               <<"M", "o", "n", "g", "o", "D", "B">>>>,
     architecture_notes |-> "Delivered tailored recommendations simplifying travel planning."],
    [name |-> <<"A", "i", "r", "g", "p", "t">>,
     description |-> "RAG system built for Air University.",
     tags |-> <<<<"N", "e", "x", "t", ".", "j", "s">>,
               <<"R", "e", "a", "c", "t">>,
               <<"F", "a", "s", "t", "A", "P", "I">>,
               <<"P", "y", "t", "h", "o", "n">>,
               <<"Q", "d", "r", "a", "n", "t">>,
               <<"L", "a", "n", "g", "C", "h", "a", "i", "n">>>>,
     architecture_notes |-> "Answers user queries by searching and reasoning over ingested documents."]>>

\* filter texts a caller passes: tags in several spellings, fragments of tags,
\* a word that is no tag, the empty text
FilterTexts == {<<"R", "e", "a", "c", "t">>,
                <<"r", "e", "a", "c", "t">>,
                <<"R", "E", "A", "C", "T">>,
                <<"R", "e", "a">>,
                <<"p", "y", "t", "h", "o", "n">>,
                <<"J", "a", "v", "a">>,
                <<"N", "e", "x", "t">>,
                <<"n", "e", "x", "t", ".", "j", "s">>,
                <<"G", "e", "m", "i", "n", "i", " ", "A", "P", "I">>,
                <<>>}

\* project names a caller passes: registered names in several spellings, a
\* fragment, a padded name, an unregistered name, the empty text
NameTexts == {<<"U", "p", "t", "i", "m", "e", "G", "u", "a", "r", "d">>,
              <<"u", "p", "t", "i", "m", "e", "g", "u", "a", "r", "d">>,
              <<"U", "P", "T", "I", "M", "E", "G", "U", "A", "R", "D">>,
              <<"G", "o", "P", "l", "a", "n", "I", "t">>,
              <<"g", "o", "p", "l", "a", "n", "i", "t">>,
              <<"A", "i", "r", "G", "P", "T">>,
              <<"U", "p", "t", "i", "m", "e">>,
              <<" ", "A", "i", "r", "g", "p", "t">>,
              <<"U", "n", "k", "n", "o", "w", "n">>,
              <<>>}

\* most filters one call carries
MaxFilters == 2

\* Optional[List[str]]: <<>> is None, <<list>> is a list
FilterInputs ==
    {<<>>} \cup {<<l>> : l \in UNION {[1..n -> FilterTexts] : n \in 0..MaxFilters}}

\* the name argument: <<>> is None (not a string), <<text>> is a string
NameInputs == {<<>>} \cup {<<n>> : n \in NameTexts}

\* x in list
InList(x, list) == \E i \in 1..Len(list) : list[i] = x

\* the test `not filters`: None and the empty list are falsy
NoFilters(filters) == filters = <<>> \/ filters[1] = <<>>

\* the record listProjects returns for a project
ProjectSummary(p) ==
    [name |-> p.name, description |-> p.description, tags |-> p.tags]

\* [ProjectSummary(p) for p in projects]
Summaries(projects) == [i \in 1..Len(projects) |-> ProjectSummary(projects[i])]

listProjects_substring(filters) ==
    IF NoFilters(filters) THEN Summaries(PROJECTS_DATA)
    ELSE LET filter_lower == [i \in 1..Len(filters[1]) |-> Lower(filters[1][i])]
             selected(p) ==
                 LET tags_lower == [i \in 1..Len(p.tags) |-> Lower(p.tags[i])]
                 IN  \E i \in 1..Len(filter_lower) : \E j \in 1..Len(tags_lower) :
                        Contains(tags_lower[j], filter_lower[i])
         IN  Summaries(SelectSeq(PROJECTS_DATA, selected))

\* listProjects(filters): the projects, in registry order, one of whose
\* lower-cased tags is a member of the lower-cased filters
listProjects(filters) ==
    IF NoFilters(filters) THEN Summaries(PROJECTS_DATA)
    ELSE LET filter_lower == [i \in 1..Len(filters[1]) |-> Lower(filters[1][i])]
             selected(p) ==
                 LET tags_lower == [i \in 1..Len(p.tags) |-> Lower(p.tags[i])]
                 IN  \E i \in 1..Len(filter_lower) : InList(filter_lower[i], tags_lower)
         IN  Summaries(SelectSeq(PROJECTS_DATA, selected))

\* the record explainProject returns for a project
ProjectDetail(p) ==
    [name |-> p.name, architecture_notes |-> p.architecture_notes, tags |-> p.tags]

\* the record explainProject returns when its loop ends without a match
ProjectNotFound(name) ==
    [error |-> <<"Project '", name, "' not found in portfolio.">>]

explainProject_case_sensitive(name) ==
    LET hits == {i \in 1..Len(PROJECTS_DATA) : PROJECTS_DATA[i].name = name}
    IN  IF hits = {} THEN ProjectNotFound(name)
        ELSE ProjectDetail(PROJECTS_DATA[CHOOSE i \in hits : \A j \in hits : i <= j])

\* explainProject(name) for a string: the first project whose lower-cased name
\* equals the lower-cased argument
explainProject(name) ==
    LET hits == {i \in 1..Len(PROJECTS_DATA) :
                    Lower(PROJECTS_DATA[i].name) = Lower(name)}
    IN  IF hits = {} THEN ProjectNotFound(name)
        ELSE ProjectDetail(PROJECTS_DATA[CHOOSE i \in hits : \A j \in hits : i <= j])

ToolsIdle ==
    /\ t_pc = "idle" /\ t_fn = "none" /\ t_arg = <<>> /\ t_result = <<>>

\* a call of listProjects runs to its return
T_ListProjects ==
    /\ t_pc = "called" /\ t_fn = "listProjects"
    /\ t_result' = <<listProjects(t_arg)>>
    /\ t_pc' = "returned"
    /\ UNCHANGED <<t_fn, t_arg>>
    /\ UNCHANGED <<envVars, storeVars, orchVars, gatewayVars, bookVars, graphVars>>

\* a call of explainProject runs to its return; name.lower() on None raises
\* AttributeError
T_ExplainProject ==
    /\ t_pc = "called" /\ t_fn = "explainProject"
    /\ IF t_arg = <<>>
       THEN /\ t_pc' = "raised"
            /\ t_result' = <<>>
       ELSE /\ t_pc' = "returned"
            /\ t_result' = <<explainProject(t_arg[1])>>
    /\ UNCHANGED <<t_fn, t_arg>>
    /\ UNCHANGED <<envVars, storeVars, orchVars, gatewayVars, bookVars, graphVars>>

(***************************************************************************)
(* orchestrator.py: orchestrate_query                                      *)
(* Texts are sequences of fragments, so that a text built from another     *)
(* (an f-string) contains it.                                              *)
(***************************************************************************)
\* orchestrator.py: the names of `tools`
orch_tools == {"get_profile_tool", "list_projects_tool", "explain_project_tool",
               "get_availability_tool", "analyze_job_fit_tool"}

\* the parameters without a default of each tool's function
RequiredArgs(name) ==
    CASE name = "explain_project_tool" -> {"name"}
      [] name = "analyze_job_fit_tool" -> {"job_text"}
      [] OTHER -> {}

\* names the language model may put in a tool call: the bound tools and a name
\* that is not one of them
OrchCallNames == orch_tools \cup {"book_meeting_tool"}

\* the argument names a tool call carries
OrchCallArgs == {{}, {"name"}, {"job_text"}}

OrchCalls == [name : OrchCallNames, args : OrchCallArgs]

\* most tool calls one model response carries
MaxCalls == 2

\* response.content of a model response
OrchContents == {<<>>, <<"Here is what I found about Mudasir's work.">>}

\* the responses of a model call that succeeds
OrchReplies ==
    [content : OrchContents,
     tool_calls : UNION {[1..n -> OrchCalls] : n \in 0..MaxCalls}]

\* str(e) of a failed model call
LLMErrors == {<<"Connection error.">>}

\* round((end - start) * 1000, 2) of an elapsed time
Latencies == {0, 5}

\* json.dumps({"error": text})
JsonError(text) == <<"{\"error\": \"">> \o text \o <<"\"}">>

\* the JSON text a tool returns
ToolOutput(name) == <<"{", name, " data}">>

\* str(e) of the validation error raised for a missing argument
InvokeError(name) == <<"validation error for ", name>>

\* target_tool.invoke(tool_args)
Invoke(name, args) ==
    IF RequiredArgs(name) \subseteq args
    THEN [raised |-> FALSE, value |-> ToolOutput(name)]
    ELSE [raised |-> TRUE, value |-> InvokeError(name)]

ToolStepResult_no_except(name, args) ==
    IF name \in orch_tools
    THEN Invoke(name, args)
    ELSE [raised |-> FALSE, value |-> JsonError(<<"Tool ", name, " not found.">>)]

\* the try/except around the tool lookup and invocation
ToolStepResult(name, args) ==
    IF name \in orch_tools
    THEN LET r == Invoke(name, args)
         IN  IF r.raised
             THEN [raised |-> FALSE, value |-> JsonError(r.value)]
             ELSE r
    ELSE [raised |-> FALSE, value |-> JsonError(<<"Tool ", name, " not found.">>)]

\* the outcomes of the synthesis call: its content, or str(e) of its failure
SynthesisOutcomes ==
    [ok : {TRUE}, text : OrchContents] \cup [ok : {FALSE}, text : LLMErrors]

SynthesisResult_no_except(outcome, raw) ==
    IF outcome.ok
    THEN [raised |-> FALSE, value |-> outcome.text]
    ELSE [raised |-> TRUE, value |-> outcome.text]

\* the try/except around the synthesis call
SynthesisResult(outcome, raw) ==
    IF outcome.ok
    THEN [raised |-> FALSE, value |-> outcome.text]
    ELSE [raised |-> FALSE,
          value |-> <<"I retrieved the information but failed to synthesize it: ">>
                    \o outcome.text \o <<". Raw Result: ">> \o raw]

ConfigErrorText ==
    <<"Error: GROQ_API_KEY is not set in the environment. Please add it to your .env file.">>

ConnectErrorText(e) == <<"Failed to connect to LLM: ">> \o e

\* the trace of the two early returns
ErrorTrace(total) ==
    [intent_detected |-> "Error", tool_selected |-> "None", tool_args |-> {},
     tool_latency_ms |-> 0, total_latency_ms |-> total]

\* the trace built after the first model call
InitialTrace ==
    [intent_detected |-> "Direct Answer", tool_selected |-> "None", tool_args |-> {},
     tool_latency_ms |-> 0, total_latency_ms |-> 0]

OrchIdle ==
    /\ o_pc = "idle" /\ o_caller = "none" /\ o_initial = <<>> /\ o_tool_result = <<>>
    /\ o_trace = <<>> /\ o_final = <<>> /\ o_result = <<>>
    /\ o_llm_calls = 0 /\ o_invoked = <<>>

\* the frame of a call is dropped once its caller has the result
OrchReset ==
    /\ o_pc' = "idle"
    /\ o_caller' = "none"
    /\ o_initial' = <<>>
    /\ o_tool_result' = <<>>
    /\ o_trace' = <<>>
    /\ o_final' = <<>>
    /\ o_result' = <<>>
    /\ o_llm_calls' = 0
    /\ o_invoked' = <<>>

O_Call(caller) ==
    /\ o_pc = "idle"
    /\ o_pc' = "check_key"
    /\ o_caller' = caller
    /\ UNCHANGED <<o_initial, o_tool_result, o_trace, o_final, o_result,
                   o_llm_calls, o_invoked>>

\* if not os.getenv("GROQ_API_KEY"): return the configuration error
O_CheckKey ==
    /\ o_pc = "check_key"
    /\ IF ~groq_key
       THEN /\ \E total \in Latencies :
                  o_result' = <<[response |-> ConfigErrorText, trace |-> ErrorTrace(total)]>>
            /\ o_pc' = "returned"
       ELSE /\ o_pc' = "first_llm"
            /\ UNCHANGED o_result
    /\ UNCHANGED <<o_caller, o_initial, o_tool_result, o_trace, o_final,
                   o_llm_calls, o_invoked>>
    /\ UNCHANGED <<groq_key, chatVars, envVars, storeVars, toolVars, gatewayVars, bookVars, graphVars>>

\* a selection that takes the last request of the response
tool_call_last(reply) == reply.tool_calls[Len(reply.tool_calls)]

\* tool_call = initial_response.tool_calls[0]
tool_call(reply) == reply.tool_calls[1]

\* llm_with_tools.invoke(...) with its except, the trace, and the test for a
\* tool call: the first tool call is taken, the others are dropped
O_FirstLLM ==
    /\ o_pc = "first_llm"
    /\ o_llm_calls' = o_llm_calls + 1
    /\ \/ \E e \in LLMErrors, total \in Latencies :
             /\ o_result' = <<[response |-> ConnectErrorText(e), trace |-> ErrorTrace(total)]>>
             /\ o_pc' = "returned"
             /\ UNCHANGED <<o_initial, o_trace, o_final>>
       \/ \E r \in OrchReplies :
             /\ o_initial' = <<r>>
             /\ UNCHANGED o_result
             /\ IF r.tool_calls # <<>>
                THEN /\ o_trace' = <<[InitialTrace EXCEPT
                                        !.intent_detected = "Tool Execution",
                                        !.tool_selected = tool_call(r).name,
                                        !.tool_args = tool_call(r).args]>>
                     /\ o_pc' = "tool"
                     /\ UNCHANGED o_final
                ELSE /\ o_trace' = <<InitialTrace>>
                     /\ o_final' = r.content
                     /\ o_pc' = "finish"
    /\ UNCHANGED <<o_caller, o_tool_result, o_invoked>>
    /\ UNCHANGED <<groq_key, chatVars, envVars, storeVars, toolVars, gatewayVars, bookVars, graphVars>>

\* the tool lookup and invocation, and the tool latency
O_Tool ==
    /\ o_pc = "tool"
    /\ LET call == tool_call(o_initial[1])
           r == ToolStepResult(call.name, call.args)
       IN  /\ o_invoked' = IF call.name \in orch_tools
                           THEN Append(o_invoked, call.name) ELSE o_invoked
           /\ IF r.raised
              THEN /\ o_pc' = "raised"
                   /\ UNCHANGED <<o_tool_result, o_trace>>
              ELSE /\ o_pc' = "synthesis"
                   /\ o_tool_result' = <<r.value>>
                   /\ \E ms \in Latencies :
                         o_trace' = <<[o_trace[1] EXCEPT !.tool_latency_ms = ms]>>
    /\ UNCHANGED <<o_caller, o_initial, o_final, o_result, o_llm_calls>>
    /\ UNCHANGED <<groq_key, chatVars, envVars, storeVars, toolVars, gatewayVars, bookVars, graphVars>>

\* llm.invoke(...) on the tool output, with its except
O_Synthesize ==
    /\ o_pc = "synthesis"
    /\ o_llm_calls' = o_llm_calls + 1
    /\ \E outcome \in SynthesisOutcomes :
          LET r == SynthesisResult(outcome, o_tool_result[1])
          IN  IF r.raised
              THEN /\ o_pc' = "raised"
                   /\ UNCHANGED o_final
              ELSE /\ o_pc' = "finish"
                   /\ o_final' = r.value
    /\ UNCHANGED <<o_caller, o_initial, o_tool_result, o_trace, o_result, o_invoked>>
    /\ UNCHANGED <<groq_key, chatVars, envVars, storeVars, toolVars, gatewayVars, bookVars, graphVars>>

\* the total latency and the return
O_Finish ==
    /\ o_pc = "finish"
    /\ \E total \in {t \in Latencies : t >= o_trace[1].tool_latency_ms} :
          /\ o_trace' = <<[o_trace[1] EXCEPT !.total_latency_ms = total]>>
          /\ o_result' = <<[response |-> o_final, trace |-> o_trace'[1]]>>
    /\ o_pc' = "returned"
    /\ UNCHANGED <<o_caller, o_initial, o_tool_result, o_final, o_llm_calls, o_invoked>>
    /\ UNCHANGED <<groq_key, chatVars, envVars, storeVars, toolVars, gatewayVars, bookVars, graphVars>>

\* a caller other than the endpoint calls orchestrate_query(message), as
\* test_orchestrator.py does
O_DirectCall ==
    /\ e_pc = "idle"
    /\ O_Call("direct")
    /\ UNCHANGED <<groq_key, chatVars, envVars, storeVars, toolVars, gatewayVars, bookVars, graphVars>>

(***************************************************************************)
(* main.py: chat_endpoint                                                  *)
(***************************************************************************)
\* orchestrator.py: the parameters of orchestrate_query
orchestrate_query_params == <<"user_message">>

\* orchestrator.py: orchestrate_query is declared with def, not async def
orchestrate_query_is_coroutine == FALSE

\* main.py: the call orchestrate_query(request.message, session_id=...)
chat_call_positional == 1
chat_call_keywords == {"session_id"}

\* Python's binding of a call's arguments to a function's parameters
CallBinds(params, positional, keywords) ==
    /\ positional <= Len(params)
    /\ keywords \subseteq {params[i] : i \in (positional + 1)..Len(params)}

\* session_id values a client sends
SessionIds == {"default", "s1", "s2"}

\* request bodies: the session_id may be left out
ChatBodies ==
    [message : {MsgQuestion, MsgDetails}, session_id : {<<>>} \cup {<<s>> : s \in SessionIds}]

\* ChatRequest: session_id takes its default when the body has none
ChatRequest(body) ==
    [message |-> body.message,
     session_id |-> IF body.session_id = <<>> THEN "default" ELSE body.session_id[1]]

\* the envelope of the except branch
InternalError(request, detail) ==
    [response |-> <<"Internal Server Error: ">> \o detail,
     session_id |-> request.session_id,
     trace |-> [error |-> TRUE, detail |-> detail]]

\* the envelope of the try branch
ChatEnvelope(request, result) ==
    [response |-> result.response,
     session_id |-> request.session_id,
     trace |-> result.trace]

UnexpectedKeyword ==
    <<"orchestrate_query() got an unexpected keyword argument 'session_id'">>

NotAwaitable == <<"object dict can't be used in 'await' expression">>

\* str(e) of an exception that leaves orchestrate_query
EscapedError == <<"exception raised in orchestrate_query">>

ChatIdle == e_pc = "idle" /\ e_request = <<>> /\ e_envelope = <<>>

\* POST /chat: the request is parsed and orchestrate_query is called; a call
\* that does not bind raises TypeError, which the except branch answers
E_Chat ==
    /\ e_pc = "idle" /\ o_pc = "idle"
    /\ \E body \in ChatBodies :
          LET request == ChatRequest(body)
          IN  /\ e_request' = <<request>>
              /\ IF CallBinds(orchestrate_query_params, chat_call_positional,
                              chat_call_keywords)
                 THEN /\ O_Call("chat_endpoint")
                      /\ e_pc' = "awaiting"
                      /\ UNCHANGED e_envelope
                 ELSE /\ e_envelope' = <<InternalError(request, UnexpectedKeyword)>>
                      /\ e_pc' = "responded"
                      /\ UNCHANGED orchCallVars
    /\ UNCHANGED <<groq_key, envVars, storeVars, toolVars, gatewayVars, bookVars, graphVars>>

\* orchestrate_query hands its value to its caller; the endpoint awaits it,
\* which raises TypeError for a value that is no coroutine, and answers
O_Return ==
    /\ o_pc \in {"returned", "raised"}
    /\ IF o_caller = "chat_endpoint"
       THEN /\ e_pc' = "responded"
            /\ e_envelope' =
                 IF o_pc = "raised" THEN <<InternalError(e_request[1], EscapedError)>>
                 ELSE IF orchestrate_query_is_coroutine
                      THEN <<ChatEnvelope(e_request[1], o_result[1])>>
                      ELSE <<InternalError(e_request[1], NotAwaitable)>>
            /\ UNCHANGED e_request
       ELSE UNCHANGED chatVars
    /\ OrchReset
    /\ UNCHANGED <<groq_key, envVars, storeVars, toolVars, gatewayVars, bookVars, graphVars>>

\* the response has been sent
E_Done ==
    /\ e_pc = "responded"
    /\ e_pc' = "idle"
    /\ e_request' = <<>>
    /\ e_envelope' = <<>>
    /\ UNCHANGED <<groq_key, orchCallVars, envVars, storeVars, toolVars, gatewayVars, bookVars, graphVars>>

(***************************************************************************)
(* Several invocations of the compiled graph (app.ainvoke(input, config))  *)
(* over one MemorySaver. An invocation reads the latest checkpoint of its  *)
(* thread_id, applies its input, and writes a checkpoint after the input   *)
(* and after every node. One invocation is scheduled at a time and runs    *)
(* the node actions above on pc, messages, trace, active_agent; the event  *)
(* loop may schedule another one between two nodes. The checkpoint a       *)
(* scheduled invocation has written last is its own state, so k_store is   *)
(* brought up to date when the invocation is descheduled or returns.       *)
(***************************************************************************)
Invocations == {"a", "b"}

\* most invocations started in one exploration
MaxInvocations == 3

\* thread_id values of config["configurable"]
ThreadIds == {"s1", "s2"}

StoreUserTexts == {MsgQuestion}

\* the state of the scheduled invocation
Working ==
    [pc |-> pc, messages |-> messages, trace |-> trace,
     active_agent |-> active_agent, cls_text |-> cls_text]

\* the state of an invocation slot that is free
Blank ==
    [pc |-> "END", messages |-> <<>>, trace |-> EmptyTrace,
     active_agent |-> "none", cls_text |-> <<>>]

\* the channels of AgentState a checkpoint holds
Channels(w) ==
    [messages |-> w.messages, trace |-> w.trace, active_agent |-> w.active_agent]

get_checkpoint_any_thread(store, thread_id) == store["s1"]

\* MemorySaver: the latest checkpoint of a thread_id
get_checkpoint(store, thread_id) == store[thread_id]

\* the latest checkpoint written for a thread_id
Checkpoint(s) ==
    IF k_thread[k_cur] = s /\ Working # k_in
    THEN Channels(Working)
    ELSE get_checkpoint(k_store, s)

StoreIdle ==
    /\ k_cur = "a"
    /\ k_thread = [r \in Invocations |-> "none"]
    /\ k_parked = [r \in Invocations |-> Blank]
    /\ k_in = Blank
    /\ k_store = [s \in ThreadIds |-> Channels(Blank)]
    /\ k_started = 0

\* the compiled graph exists and no node is in the middle of a call
BetweenNodes ==
    /\ pc \in {"END", "identify_intent", "portfolio_chatbot", "calendar_chatbot", "tools"}
    /\ d_pc = "idle"
    /\ b_pc = "idle"

\* app.ainvoke({"messages": [HumanMessage(u)]}, {"configurable": {"thread_id": s}}):
\* the checkpoint of s is read, add_messages appends the input, and the input
\* checkpoint is written
K_InvokeOn(s) ==
    /\ BetweenNodes
    /\ k_thread[k_cur] = "none"
    /\ k_started < MaxInvocations
    /\ Len(get_checkpoint(k_store, s).messages) + 2 <= MaxMsgs
    /\ \E u \in StoreUserTexts :
          LET cp == get_checkpoint(k_store, s)
              loaded == [cp EXCEPT !.messages = Append(cp.messages, UserMsg(u))]
          IN  /\ messages' = loaded.messages
              /\ trace' = loaded.trace
              /\ active_agent' = loaded.active_agent
              /\ k_store' = [k_store EXCEPT ![s] = loaded]
    /\ pc' = "identify_intent"
    /\ cls_text' = <<>>
    /\ k_thread' = [k_thread EXCEPT ![k_cur] = s]
    /\ k_started' = k_started + 1
    /\ UNCHANGED <<k_cur, k_parked, k_in, all_tools>>
    /\ UNCHANGED <<envVars, toolVars, orchVars, gatewayVars, bookVars>>

\* invocations are started whether or not the thread_id is in use
K_Invoke == \E s \in ThreadIds : K_InvokeOn(s)

\* invocations are started only on a thread_id no other invocation is using
K_InvokeSerial ==
    \E s \in ThreadIds :
        /\ \A r \in Invocations : k_thread[r] # s
        /\ K_InvokeOn(s)

\* the invocation has reached END: its last checkpoint is in the store and
\* ainvoke returns its state to the caller
K_Return ==
    /\ BetweenNodes
    /\ pc = "END"
    /\ k_thread[k_cur] # "none"
    /\ k_store' = [k_store EXCEPT ![k_thread[k_cur]] = Channels(Working)]
    /\ k_thread' = [k_thread EXCEPT ![k_cur] = "none"]
    /\ pc' = Blank.pc
    /\ messages' = Blank.messages
    /\ trace' = Blank.trace
    /\ active_agent' = Blank.active_agent
    /\ cls_text' = Blank.cls_text
    /\ k_in' = Blank
    /\ UNCHANGED <<k_cur, k_parked, k_started, all_tools>>
    /\ UNCHANGED <<envVars, toolVars, orchVars, gatewayVars, bookVars>>

\* the event loop schedules another invocation between two nodes; an
\* invocation that is under way runs at least one node before it is descheduled
K_Switch ==
    /\ BetweenNodes
    /\ all_tools # {}
    /\ k_thread[k_cur] = "none" \/ Working # k_in
    /\ \E r \in Invocations \ {k_cur} :
          /\ k_cur' = r
          /\ k_parked' = [k_parked EXCEPT ![k_cur] = Working]
          /\ k_store' = IF k_thread[k_cur] = "none" THEN k_store
                        ELSE [k_store EXCEPT ![k_thread[k_cur]] = Channels(Working)]
          /\ pc' = k_parked[r].pc
          /\ messages' = k_parked[r].messages
          /\ trace' = k_parked[r].trace
          /\ active_agent' = k_parked[r].active_agent
          /\ cls_text' = k_parked[r].cls_text
          /\ k_in' = k_parked[r]
    /\ UNCHANGED <<k_thread, k_started, all_tools>>
    /\ UNCHANGED <<envVars, toolVars, orchVars, gatewayVars, bookVars>>

(***************************************************************************)
(* Specification of the graph pipeline                                     *)
(***************************************************************************)
Init ==
    /\ creds \in BOOLEAN
    /\ node_entry \in BOOLEAN
    /\ GatewayIdle
    /\ BookIdle
    /\ GraphUnbuilt
    /\ StoreIdle
    /\ ToolsIdle
    /\ groq_key = TRUE
    /\ OrchIdle
    /\ ChatIdle

Next ==
    \/ G_Build
    \/ D_CheckCreds
    \/ D_CheckEntry
    \/ D_Connect
    \/ G_BuildDone
    \/ G_Request
    \/ G_IdentifyIntent
    \/ G_Portfolio
    \/ G_CalendarDiscover
    \/ G_CalendarRespond
    \/ G_Tools
    \/ B_Payload
    \/ B_MkTemp
    \/ B_Write
    \/ B_Run
    \/ G_ToolsBooked

Spec == Init /\ [][Next]_vars

(***************************************************************************)
(* Specification of direct discovery calls                                 *)
(***************************************************************************)
InitGateway ==
    /\ creds \in BOOLEAN
    /\ node_entry \in BOOLEAN
    /\ GatewayIdle
    /\ BookIdle
    /\ GraphUnbuilt
    /\ StoreIdle
    /\ ToolsIdle
    /\ groq_key = TRUE
    /\ OrchIdle
    /\ ChatIdle

NextGateway ==
    \/ D_DirectCall
    \/ D_CheckCreds
    \/ D_CheckEntry
    \/ D_Connect
    \/ D_ReturnDirect

SpecGateway == InitGateway /\ [][NextGateway]_vars

(***************************************************************************)
(* Specification of direct booking calls                                   *)
(***************************************************************************)
InitBooking ==
    /\ creds \in BOOLEAN
    /\ node_entry \in BOOLEAN
    /\ GatewayIdle
    /\ BookIdle
    /\ GraphUnbuilt
    /\ StoreIdle
    /\ ToolsIdle
    /\ groq_key = TRUE
    /\ OrchIdle
    /\ ChatIdle

NextBooking ==
    \/ B_DirectCall
    \/ B_Payload
    \/ B_MkTemp
    \/ B_Write
    \/ B_Run
    \/ B_ReturnDirect

SpecBooking == InitBooking /\ [][NextBooking]_vars

(***************************************************************************)
(* Specification of a session of several turns: the graph pipeline with a   *)
(* longer history and fewer distinct texts. A capability request is still   *)
(* only explored while MaxMsgs leaves room for its result, so the turns     *)
(* after the first four Turns are answered with text.                       *)
(***************************************************************************)
\* longest session history explored by this specification
MaxSessionMsgs == 6

SessionUserTexts == {MsgQuestion}
SessionClassifierTexts == {KwPortfolio, KwCalendar}
SessionContents == {TextNone, TextPlain}

\* the Turn a step has just appended
Appended == messages'[Len(messages')]

S_Request ==
    /\ G_RequestUpTo(MaxSessionMsgs)
    /\ Appended.content \in SessionUserTexts

S_IdentifyIntent ==
    /\ G_IdentifyIntent
    /\ cls_text'[1] \in SessionClassifierTexts

S_Portfolio ==
    /\ G_Portfolio
    /\ Appended.content \in SessionContents

S_CalendarRespond ==
    /\ G_CalendarRespond
    /\ Appended.content \in SessionContents

NextSession ==
    \/ G_Build
    \/ D_CheckCreds
    \/ D_CheckEntry
    \/ D_Connect
    \/ G_BuildDone
    \/ S_Request
    \/ S_IdentifyIntent
    \/ S_Portfolio
    \/ G_CalendarDiscover
    \/ S_CalendarRespond
    \/ G_Tools
    \/ B_Payload
    \/ B_MkTemp
    \/ B_Write
    \/ B_Run
    \/ G_ToolsBooked

SpecSession == Init /\ [][NextSession]_vars

(***************************************************************************)
(* Specification of one long turn: the graph pipeline in Informational     *)
(* mode with one text per role and one tool, and with the step limit of    *)
(* the compiled graph. The graph is compiled and invoked without a         *)
(* recursion_limit, so LangGraph's default applies: when that many nodes   *)
(* have run in one invocation and another node is due, the invocation      *)
(* raises GraphRecursionError.                                             *)
(***************************************************************************)
\* longest session history explored by this specification
MaxLoopMsgs == 26

\* LangGraph's default recursion_limit
RecursionLimit == 25

\* the nodes that have run in the current invocation: identify_intent, and one
\* handler or tool step for every Turn appended after the user's
StepsDone ==
    IF pc = "identify_intent" THEN 0
    ELSE LET users == {i \in 1..Len(messages) : messages[i].role = "user"}
             start == CHOOSE i \in users : \A j \in users : j <= i
         IN  1 + Len(messages) - start

LoopTool == "get_profile_tool"

\* the first request of a session
L_Request ==
    /\ messages = <<>>
    /\ G_RequestUpTo(MaxLoopMsgs)
    /\ Appended.content \in SessionUserTexts

L_IdentifyIntent ==
    /\ G_IdentifyIntent
    /\ StepsDone < RecursionLimit
    /\ cls_text'[1] = KwPortfolio

L_Portfolio ==
    /\ G_PortfolioUpTo(MaxLoopMsgs)
    /\ StepsDone < RecursionLimit
    /\ Appended.content = TextNone
    /\ Appended.tool_calls # <<>> => Appended.tool_calls[1].name = LoopTool

L_Tools ==
    /\ G_Tools
    /\ StepsDone < RecursionLimit

\* a node is due after RecursionLimit nodes have run: GraphRecursionError
G_OutOfSteps ==
    /\ pc \in {"identify_intent", "portfolio_chatbot", "calendar_chatbot", "tools"}
    /\ StepsDone >= RecursionLimit
    /\ pc' = "out_of_steps"
    /\ UNCHANGED <<messages, trace, active_agent, all_tools, cls_text>>
    /\ UNCHANGED <<envVars, storeVars, toolVars, orchVars, gatewayVars, bookVars>>

NextLoop ==
    \/ G_Build
    \/ D_CheckCreds
    \/ D_CheckEntry
    \/ D_Connect
    \/ G_BuildDone
    \/ L_Request
    \/ L_IdentifyIntent
    \/ L_Portfolio
    \/ L_Tools
    \/ G_OutOfSteps

SpecLoop == Init /\ [][NextLoop]_vars

(***************************************************************************)
(* Specifications of several invocations                                   *)
(***************************************************************************)
\* what the invocations do in both specifications below
\* the process runs without credentials.json: discovery returns no
\* capability and book_meeting_tool returns before it creates its script
InitStore ==
    /\ Init
    /\ ~creds
    /\ node_entry

\* the handlers answer with text
K_Portfolio ==
    /\ G_Portfolio
    /\ Appended.content = TextPlain
    /\ Appended.tool_calls = <<>>

K_CalendarRespond ==
    /\ G_CalendarRespond
    /\ Appended.content = TextPlain
    /\ Appended.tool_calls = <<>>

StoreSteps ==
    \/ G_Build
    \/ D_CheckCreds
    \/ G_BuildDone
    \/ S_IdentifyIntent
    \/ K_Portfolio
    \/ G_CalendarDiscover
    \/ K_CalendarRespond
    \/ K_Return
    \/ K_Switch

(***************************************************************************)
(* Specification of sessions whose requests do not overlap                 *)
(***************************************************************************)
NextSerial ==
    \/ K_InvokeSerial
    \/ StoreSteps

SpecSerial == InitStore /\ [][NextSerial]_vars

(***************************************************************************)
(* Specification of requests that may overlap on one session               *)
(***************************************************************************)
NextConcurrent ==
    \/ K_Invoke
    \/ StoreSteps

SpecConcurrent == InitStore /\ [][NextConcurrent]_vars

(***************************************************************************)
(* Specification of direct registry lookups                                *)
(***************************************************************************)
InitTools ==
    /\ creds = TRUE
    /\ node_entry = TRUE
    /\ GatewayIdle
    /\ BookIdle
    /\ GraphUnbuilt
    /\ StoreIdle
    /\ groq_key = TRUE
    /\ OrchIdle
    /\ ChatIdle
    /\ t_pc = "called"
    /\ t_result = <<>>
    /\ \/ t_fn = "listProjects" /\ t_arg \in FilterInputs
       \/ t_fn = "explainProject" /\ t_arg \in NameInputs

NextTools ==
    \/ T_ListProjects
    \/ T_ExplainProject

SpecTools == InitTools /\ [][NextTools]_vars

(***************************************************************************)
(* Specification of the orchestrator and the chat endpoint                 *)
(***************************************************************************)
InitOrch ==
    /\ creds = TRUE
    /\ node_entry = TRUE
    /\ GatewayIdle
    /\ BookIdle
    /\ GraphUnbuilt
    /\ StoreIdle
    /\ ToolsIdle
    /\ groq_key \in BOOLEAN
    /\ OrchIdle
    /\ ChatIdle

NextOrch ==
    \/ O_DirectCall
    \/ E_Chat
    \/ O_CheckKey
    \/ O_FirstLLM
    \/ O_Tool
    \/ O_Synthesize
    \/ O_Finish
    \/ O_Return
    \/ E_Done

SpecOrch == InitOrch /\ [][NextOrch]_vars

(***************************************************************************)
(* Properties                                                              *)
(***************************************************************************)
\* what a user Turn carries
HasName(u) == u = MsgDetails
HasEmail(u) == u = MsgDetails
HasTime(u) == u = MsgDetails
Affirms(u) == u = MsgAffirm
RestatesTime(c) == c = TextRestate

\* the cancellation lexicon of the router
CancelLexicon == {"no", "nope", "cancel", "stop", "nevermind"}

UserTurns(msgs) == {i \in 1..Len(msgs) : msgs[i].role = "user"}

\* name, email and time from the user, an assistant Turn restating the time after
\* the time was given, and a user affirmation after that
ReadyToBook(msgs) ==
    /\ \E i \in UserTurns(msgs) : HasName(msgs[i].content)
    /\ \E i \in UserTurns(msgs) : HasEmail(msgs[i].content)
    /\ \E i \in UserTurns(msgs) : \E j, k \in 1..Len(msgs) :
          /\ i < j /\ j < k
          /\ HasTime(msgs[i].content)
          /\ msgs[j].role = "ai" /\ RestatesTime(msgs[j].content)
          /\ msgs[k].role = "user" /\ Affirms(msgs[k].content)

\* C1: the tool step never runs book_meeting_tool unless the history holds a name,
\* an email and a time from the user, an assistant Turn restating the time and a
\* later user affirmation.
C1_BookingOnlyWhenConfirmed ==
    (b_pc # "idle" /\ b_caller = "tools") => ReadyToBook(messages)

\* C2: a message of the cancellation lexicon that arrives in a scheduling
\* sub-dialogue makes identify_intent select 'portfolio', whatever the
\* classification call answers.
C2_CancelForcesPortfolio ==
    [][(/\ pc = "identify_intent"
        /\ active_agent = "calendar"
        /\ messages[Len(messages)].content \in CancelLexicon)
       => active_agent' = "portfolio"]_vars

\* a classification answer that names neither mode (case-insensitively)
NamesNoMode(text) ==
    /\ ~Contains(Lower(text), KwCalendar)
    /\ ~Contains(Lower(text), KwPortfolio)

\* C3: for every classification answer identify_intent yields exactly one of the two
\* modes and the graph routes to that mode's handler; an answer that names no mode
\* (empty, unrelated, garbled) yields 'portfolio'.
C3_IntentCollapses ==
    cls_text # <<>> =>
        /\ active_agent \in {"portfolio", "calendar"}
        /\ pc \in {"portfolio_chatbot", "calendar_chatbot"}
        /\ (pc = "calendar_chatbot") <=> (active_agent = "calendar")
        /\ NamesNoMode(cls_text[1]) => active_agent = "portfolio"

\* a garbled, non-empty answer was classified and routed to the informational handler
C3_Witness ==
    /\ cls_text # <<>>
    /\ cls_text[1] # <<>>
    /\ NamesNoMode(cls_text[1])
    /\ pc = "portfolio_chatbot"

\* the node of the handler that wrote its name into the trace
HandlerNode(agentName) ==
    IF agentName = "Calendar Agent" THEN "calendar_chatbot" ELSE "portfolio_chatbot"

\* C4: while the tool step runs, the mode chosen by the router does not change, and
\* the node that runs after the tool step is the handler that issued the request.
C4_ResultReturnsToIssuer ==
    [][(pc = "tools" \/ pc = "tools_await") =>
          (/\ active_agent' = active_agent
           /\ pc' \in {"tools", "tools_await", HandlerNode(trace.active_agent)})]_vars

\* a tool result was handed back to the scheduling handler, which issued the request
C4_Witness ==
    /\ pc = "calendar_chatbot"
    /\ messages # <<>>
    /\ messages[Len(messages)].role = "tool"
    /\ trace.active_agent = "Calendar Agent"

\* C5: discovery never raises, makes at most one discovery attempt per call, and
\* returns the empty set when the credential artifact is missing, on timeout and on
\* any other connection error.
C5_DiscoveryNeverRaises ==
    /\ d_pc # "raised"
    /\ d_attempts <= 1
    /\ d_pc = "returned" =>
          ((~creds \/ d_outcome \in {"timeout", "error"}) => d_tools = {})
    /\ (d_pc = "returned" /\ ~creds) => d_attempts = 0

\* a call whose single handshake failed with a connection error has returned
C5_Witness ==
    /\ d_pc = "returned"
    /\ creds
    /\ d_outcome = "error"
    /\ d_attempts = 1
    /\ d_tools = {}

\* C6: when discovery yields the empty set in a scheduling turn, the handler appends
\* the unavailability message, the trace says 'Direct Answer' and the turn ends
\* without a capability request.
C6_EmptyDiscoveryUnavailable ==
    [][(pc = "calendar_await" /\ d_pc = "returned" /\ d_tools = {}) =>
          (/\ messages' = Append(messages, AIMsg(TextUnavailable, <<>>))
           /\ trace'.intent_detected = "Direct Answer"
           /\ pc' = "END")]_vars

\* C7 as claimed: with the credential artifact present and the provider entry point
\* absent, discovery returns the empty set without launching a provider process.
C7_NoEntryNoLaunch ==
    (d_pc = "returned" /\ creds /\ ~node_entry) => (d_tools = {} /\ ~d_launched)

\* C7 amended: with the credential artifact present and the entry point absent,
\* get_meet_tools returns the empty set without launching anything, while
\* get_calendar_tools launches the provider through the npx fallback and returns
\* the empty set when that discovery times out or fails.
C7_EntryAbsent ==
    (d_pc = "returned" /\ creds /\ ~node_entry) =>
        IF d_fn = "meet"
        THEN d_tools = {} /\ ~d_launched /\ d_attempts = 0
        ELSE /\ d_launched
             /\ d_command = "npx.cmd"
             /\ d_outcome \in {"timeout", "error"} => d_tools = {}

\* get_calendar_tools returned capabilities although the entry point is absent
C7_Witness ==
    /\ d_pc = "returned"
    /\ d_fn = "calendar"
    /\ creds
    /\ ~node_entry
    /\ d_launched
    /\ d_tools # {}

\* C8 as claimed: the set returned by get_calendar_tools holds read-only list
\* operations only.
C8_OnlyReadOnly ==
    (d_pc = "returned" /\ d_fn = "calendar") => d_tools \subseteq ReadOnlyNames

\* C8 amended: the set returned by get_calendar_tools holds only offered
\* capabilities of its five-name allow-list (the mutating create-event,
\* update-event and delete-event included); what the callers keep of it after
\* their read-only filter holds list operations only.
C8_AllowListed ==
    (d_pc = "returned" /\ d_fn = "calendar") =>
        /\ d_tools \subseteq allowed_tools
        /\ d_tools \subseteq d_offered
        /\ read_only_mcp_tools(d_tools) \cap MutatingNames = {}

\* the provider offered a capability outside the allow-list and a mutating one,
\* and the mutating one was returned
C8_Witness ==
    /\ d_pc = "returned"
    /\ d_fn = "calendar"
    /\ "search-events" \in d_offered
    /\ "create-event" \in d_tools

\* the timestamp has a UTC designator or a signed offset after its time part
CarriesOffset(ts) ==
    \E t \in 1..Len(ts) :
        /\ ts[t] = "T"
        /\ \E i \in (t + 1)..Len(ts) : ts[i] \in {"Z", "+", "-"}

\* the normalization the claim describes
Normalized(ts) == IF CarriesOffset(ts) THEN ts ELSE ts \o LocalOffset

\* C9: start and end of the payload are the arguments unchanged when they carry a
\* UTC offset (positive or negative) or 'Z', and the arguments with '+05:00'
\* appended when they carry none; attendees is an array of attendee records.
C9_TimestampsNormalized ==
    b_payload # <<>> =>
        /\ b_payload[1].start = Normalized(b_args[1].start_time)
        /\ b_payload[1].end = Normalized(b_args[1].end_time)
        /\ Len(b_payload[1].attendees) = 1
        /\ b_payload[1].attendees[1].email = b_args[1].email

\* the ways the provider call can fail
ProviderFailures ==
    {"abnormal_exit", "connect_failed", "name_error", "call_raised", "call_is_error"}

\* C10: book_meeting_tool never raises, and it returns status 'error' whenever the
\* provider call failed.
C10_FailureIsError ==
    /\ b_pc # "raised"
    /\ (b_pc = "returned" /\ b_proc \in ProviderFailures) => b_result[1].status = "error"

\* a JSON text of the shape {"error": ...}
IsErrorPayload(x) ==
    /\ Len(x) >= 3
    /\ x[1] = "{\"error\": \""
    /\ x[Len(x)] = "\"}"

\* the tool call orchestrate_query acts on
SelectedCall == o_initial[1].tool_calls[1]

\* C11: the tool step of orchestrate_query never lets a fault escape: a tool
\* name that is not registered gives an error payload saying the tool was not
\* found, a tool whose invocation raises gives an error payload carrying the
\* failure text, and in both cases the next step is the synthesis call, with
\* that payload as the tool result.
C11_ToolStepContainsFaults ==
    [][(o_pc = "tool") =>
         (/\ o_pc' = "synthesis"
          /\ Len(o_tool_result') = 1
          /\ (SelectedCall.name \notin orch_tools =>
                /\ IsErrorPayload(o_tool_result'[1])
                /\ Contains(o_tool_result'[1], <<"Tool ", SelectedCall.name, " not found.">>))
          /\ (SelectedCall.name \in orch_tools
                /\ Invoke(SelectedCall.name, SelectedCall.args).raised =>
                /\ IsErrorPayload(o_tool_result'[1])
                /\ Contains(o_tool_result'[1],
                            Invoke(SelectedCall.name, SelectedCall.args).value)))]_vars

\* a registered tool was invoked without its required argument and the
\* synthesis call is about to run on the error payload
C11_Witness ==
    /\ o_pc = "synthesis"
    /\ SelectedCall.name \in orch_tools
    /\ Invoke(SelectedCall.name, SelectedCall.args).raised
    /\ IsErrorPayload(o_tool_result[1])

\* the envelope chat_endpoint has just produced
Envelope == e_envelope[1]

\* C12: with GROQ_API_KEY absent, a chat request is answered with the
\* configuration-error message and a trace whose intent_detected is "Error",
\* and neither a model call nor a tool invocation happens for it.
C12_MissingKeyAnswered ==
    (e_pc = "responded" /\ ~groq_key) =>
        /\ Envelope.response = ConfigErrorText
        /\ "intent_detected" \in DOMAIN Envelope.trace
        /\ Envelope.trace.intent_detected = "Error"
        /\ o_llm_calls = 0
        /\ o_invoked = <<>>

\* C13: every envelope of chat_endpoint has the fields response, session_id and
\* trace, its session_id is the request's ("default" when the body has none),
\* and, orchestrate_query turning its own failures into a result, the envelope
\* carries that result and is not the internal-error envelope.
C13_PipelineEnvelope ==
    (e_pc = "responded") =>
        /\ DOMAIN Envelope = {"response", "session_id", "trace"}
        /\ Envelope.session_id = e_request[1].session_id
        /\ "error" \notin DOMAIN Envelope.trace

\* two texts that differ at most in the case of their letters
EqualIgnoringCase(a, b) ==
    /\ Len(a) = Len(b)
    /\ \A i \in 1..Len(a) : LowerChar(a[i]) = LowerChar(b[i])

\* the registry positions of the projects one of whose tags is, ignoring case,
\* one of the filters
TaggedProjects(fs) ==
    {i \in 1..Len(PROJECTS_DATA) :
        \E j \in 1..Len(PROJECTS_DATA[i].tags), k \in 1..Len(fs) :
            EqualIgnoringCase(PROJECTS_DATA[i].tags[j], fs[k])}

\* the registry positions listProjects is to return for its argument
WantedProjects(filters) ==
    IF filters = <<>> \/ filters[1] = <<>>
    THEN 1..Len(PROJECTS_DATA)
    ELSE TaggedProjects(filters[1])

\* C14: listProjects returns, in registry order, exactly the projects that have
\* a tag equal, ignoring case and as a whole tag, to one of the filters; all
\* projects when the filters are None or empty; none when no tag matches.
C14_ListProjectsExact ==
    (t_pc = "returned" /\ t_fn = "listProjects") =>
        LET res == t_result[1]
            wanted == WantedProjects(t_arg)
        IN  /\ Len(res) = Cardinality(wanted)
            /\ \A i \in wanted :
                  LET k == Cardinality({j \in wanted : j <= i})
                  IN  /\ res[k].name = PROJECTS_DATA[i].name
                      /\ res[k].tags = PROJECTS_DATA[i].tags
                      /\ res[k].description = PROJECTS_DATA[i].description

\* a filter that is no tag as written but is one ignoring case selected some
\* projects and not others
C14_Witness ==
    /\ t_pc = "returned" /\ t_fn = "listProjects"
    /\ t_arg # <<>> /\ t_arg[1] # <<>>
    /\ \A k \in 1..Len(t_arg[1]) : \A i \in 1..Len(PROJECTS_DATA) :
          ~InList(t_arg[1][k], PROJECTS_DATA[i].tags)
    /\ Len(t_result[1]) > 0
    /\ Len(t_result[1]) < Len(PROJECTS_DATA)

\* a result that is a record with an error field
IsNotFound(r) == DOMAIN r = {"error"}

\* the registry positions of the projects named, ignoring case, by a text
NamedProjects(name) ==
    {i \in 1..Len(PROJECTS_DATA) : EqualIgnoringCase(PROJECTS_DATA[i].name, name)}

\* C15: for every name that is a string explainProject returns and does not
\* raise: the detail record of the registered project whose name equals the
\* argument ignoring case, and a record with an error field for every other
\* name.
C15_ExplainProjectTotal ==
    (t_fn = "explainProject" /\ t_arg # <<>> /\ t_pc # "called") =>
        /\ t_pc = "returned"
        /\ LET name == t_arg[1]
               res == t_result[1]
           IN  IF NamedProjects(name) = {}
               THEN IsNotFound(res)
               ELSE \E i \in NamedProjects(name) :
                       /\ DOMAIN res = {"name", "architecture_notes", "tags"}
                       /\ res.name = PROJECTS_DATA[i].name
                       /\ res.architecture_notes = PROJECTS_DATA[i].architecture_notes
                       /\ res.tags = PROJECTS_DATA[i].tags

\* a name spelled in another case than the registry's returned that project's
\* detail record
C15_Witness ==
    /\ t_fn = "explainProject" /\ t_pc = "returned"
    /\ t_arg # <<>>
    /\ \A i \in 1..Len(PROJECTS_DATA) : PROJECTS_DATA[i].name # t_arg[1]
    /\ ~IsNotFound(t_result[1])

\* C16: the response text of orchestrate_query never contains a raw error
\* payload of the tool step, on any path, the path where the synthesis call
\* fails after the tool step included.
C16_NoRawErrorInResponse ==
    (o_pc = "returned" /\ o_tool_result # <<>> /\ IsErrorPayload(o_tool_result[1])) =>
        ~Contains(o_result[1].response, o_tool_result[1])

\* the record orchestrate_query has just returned
Returned == o_result[1]

TraceFields ==
    {"intent_detected", "tool_selected", "tool_args", "tool_latency_ms", "total_latency_ms"}

\* C17: orchestrate_query never raises: whatever the first model call, the
\* tool and the synthesis call do, the call ends by returning a record with a
\* response and a trace that has the five trace fields, intent_detected being
\* 'Tool Execution', 'Direct Answer' or 'Error'.
C17_AlwaysReturnsRecord ==
    /\ o_pc # "raised"
    /\ (o_pc = "returned") =>
          /\ DOMAIN Returned = {"response", "trace"}
          /\ Returned.response \in Seq(STRING)
          /\ DOMAIN Returned.trace = TraceFields
          /\ Returned.trace.intent_detected \in {"Tool Execution", "Direct Answer", "Error"}

\* the call returned after a tool invocation that raised and a synthesis call
\* that failed
C17_Witness ==
    /\ o_pc = "returned"
    /\ o_initial # <<>> /\ o_initial[1].tool_calls # <<>>
    /\ Invoke(SelectedCall.name, SelectedCall.args).raised
    /\ o_llm_calls = 2
    /\ Contains(Returned.response, <<"I retrieved the information but failed to synthesize it: ">>)

\* C18: every Turn a handler appends is a final text reply or a capability
\* request, never both: no assistant Turn of the history has visible text
\* together with tool calls.
C18_TextOrRequest ==
    \A i \in 1..Len(messages) :
        messages[i].role = "ai" =>
            ~(messages[i].content # TextNone /\ messages[i].tool_calls # <<>>)

\* the position of the user Turn that opened the current turn
TurnStart(msgs) == CHOOSE i \in UserTurns(msgs) : \A j \in UserTurns(msgs) : j <= i

\* the tool step ran during the current turn
ToolRanThisTurn(msgs) ==
    \E i \in 1..Len(msgs) : i > TurnStart(msgs) /\ msgs[i].role = "tool"

\* C19: at the end of a turn of the graph the trace names the mode that handled
\* the turn, and its intent_detected is "Tool Execution" exactly when a
\* capability was executed during the turn and "Direct Answer" exactly when
\* none was.
C19_IntentMatchesExecution ==
    (pc = "END" /\ messages # <<>>) =>
        /\ trace.active_agent =
              (IF active_agent = "calendar" THEN "Calendar Agent" ELSE "Portfolio Agent")
        /\ (trace.intent_detected = "Tool Execution") <=> ToolRanThisTurn(messages)
        /\ (trace.intent_detected = "Direct Answer") <=> ~ToolRanThisTurn(messages)

\* no capability was requested during the current turn
NoRequestThisTurn(msgs) ==
    \A i \in 1..Len(msgs) : i > TurnStart(msgs) => msgs[i].tool_calls = <<>>

\* C20: the trace is overwritten each turn: at the end of a turn in which no
\* capability was requested it holds no tool_selected or tool_args of an
\* earlier turn, and its active_agent and intent_detected are those of the
\* current turn.
C20_TraceOverwritten ==
    (pc = "END" /\ messages # <<>> /\ NoRequestThisTurn(messages)) =>
        /\ trace.tool_selected = "absent"
        /\ trace.tool_args = <<>>
        /\ trace.intent_detected = "Direct Answer"
        /\ trace.active_agent =
              (IF active_agent = "calendar" THEN "Calendar Agent" ELSE "Portfolio Agent")

\* C21: every turn terminates at END with a final text Turn as the last
\* message: no turn is cut off while the handler and the tool step are still
\* taking turns, and whenever a turn has ended the last Turn of the history is
\* an assistant Turn without tool calls.
C21_TurnReachesEnd ==
    /\ pc # "out_of_steps"
    /\ (pc = "END" /\ messages # <<>>) =>
          /\ messages[Len(messages)].role = "ai"
          /\ messages[Len(messages)].tool_calls = <<>>

\* a is an initial segment of b
IsPrefix(a, b) == Len(a) <= Len(b) /\ SubSeq(b, 1, Len(a)) = a

\* the thread_id the scheduled invocation runs on ("none" when it is free)
CurrentThread == k_thread[k_cur]

\* C22: a session's history is append-only across turns (the history a
\* thread_id had before a step is a prefix of the history it has after it),
\* and a step of a turn on one thread_id leaves the history, the trace and
\* the mode of every other thread_id unchanged.
C22_SessionsIsolated ==
    [][\A s \in ThreadIds :
          /\ IsPrefix(Checkpoint(s).messages, Checkpoint(s)'.messages)
          /\ (s # CurrentThread /\ s # CurrentThread') =>
                Checkpoint(s)' = Checkpoint(s)]_vars

\* a second turn has been appended to the first session's history while the
\* other session has a history of its own
C22_Witness ==
    /\ Len(Checkpoint("s1").messages) >= 3
    /\ Checkpoint("s1").messages[3] = UserMsg(MsgQuestion)
    /\ Len(Checkpoint("s2").messages) >= 2
    /\ CurrentThread = "s1"
    /\ pc = "END"

\* a user Turn follows only a final assistant Turn: the Turns of two requests
\* are not interleaved
TurnsNotInterleaved(msgs) ==
    \A i \in 2..Len(msgs) :
        msgs[i].role = "user" =>
            /\ msgs[i - 1].role = "ai"
            /\ msgs[i - 1].tool_calls = <<>>

\* C23: two requests that overlap on one thread_id are serialized: no Turn
\* written to the session's history is lost (the history before a step is a
\* prefix of the history after it), and the Turns of the two requests are
\* not interleaved.
C23_RequestsSerialized ==
    [][\A s \in ThreadIds :
          /\ IsPrefix(Checkpoint(s).messages, Checkpoint(s)'.messages)
          /\ TurnsNotInterleaved(Checkpoint(s)'.messages)]_vars

\* the name a handler writes into the trace for a mode
AgentLabel(agent) == IF agent = "calendar" THEN "Calendar Agent" ELSE "Portfolio Agent"

\* the step taken is the router (identify_intent and its conditional edge)
RouterStep == pc = "identify_intent" /\ pc' # "identify_intent"

\* C24 as stated: the router leaves the history unchanged and, after it has
\* run, the trace carries the mode it selected.
C24_RouterWritesTrace ==
    [][RouterStep =>
          /\ messages' = messages
          /\ trace'.active_agent = AgentLabel(active_agent')]_vars

\* C24 amended: the router leaves the history and the trace unchanged and
\* records the mode it selected in the session's active_agent, which decides
\* the handler that runs next; the trace carries the selected mode once that
\* handler has answered and the turn has ended.
C24_RouterWritesMode ==
    [][/\ RouterStep =>
             /\ messages' = messages
             /\ trace' = trace
             /\ active_agent' \in {"calendar", "portfolio"}
             /\ pc' = (IF active_agent' = "calendar" THEN "calendar_chatbot"
                       ELSE "portfolio_chatbot")
       /\ (pc' = "END" /\ messages' # <<>>) =>
             trace'.active_agent = AgentLabel(active_agent')]_vars

\* the router has selected the scheduling mode in a session whose trace still
\* names the informational handler of the turn before
C24_Witness ==
    /\ pc = "calendar_chatbot"
    /\ cls_text # <<>>
    /\ active_agent = "calendar"
    /\ trace.active_agent = "Portfolio Agent"
    /\ messages[Len(messages)].role = "user"

\* the request the tool step is about to serve
PendingCall == messages[Len(messages)].tool_calls[1]

\* the step taken is the tool step executing a capability it holds
ToolStepExecutes ==
    /\ pc = "tools"
    /\ pc' # "tools"
    /\ PendingCall.name \in all_tools

\* C25: in the scheduling mode the tool step executes only list-calendars,
\* list-events and the book-meeting proxy, never an informational capability
\* or a provider capability that changes the calendar; in the informational
\* mode it never executes a calendar capability.
C25_ModeBoundsExecution ==
    [][ToolStepExecutes =>
          IF active_agent = "calendar"
          THEN /\ PendingCall.name \in ReadOnlyNames \cup {BookTool}
               /\ PendingCall.name \notin portfolio_tools \cup MutatingNames
          ELSE PendingCall.name \notin allowed_tools \cup {BookTool}]_vars

\* the tool step has executed list-events for the scheduling handler
C25_Witness ==
    /\ active_agent = "calendar"
    /\ pc = "calendar_chatbot"
    /\ messages # <<>>
    /\ messages[Len(messages)].role = "tool"
    /\ messages[Len(messages)].name = "list-events"
    /\ messages[Len(messages)].status # "not_found"

\* C26: every capability the scheduling handler binds in a turn is held by
\* the tool step: when the turn's discovery has returned, the set the handler
\* is about to bind is a subset of the set registered when the graph was built.
C26_BoundSubsetOfRegistered ==
    (pc = "calendar_await" /\ d_pc = "returned") =>
        calendar_agent_tools(d_tools) \subseteq all_tools

\* the first response of the call under way requested a capability
FirstRequested == o_initial # <<>> /\ o_initial[1].tool_calls # <<>>

\* C27: in one call of orchestrate_query the language capability is invoked
\* at most twice and at most one capability is executed; when the first
\* response requests several capabilities, the one executed and recorded in
\* the trace is the first request, and no capability is executed unless the
\* first response requested it.
C27_OneCapabilityPerCall ==
    /\ o_llm_calls <= 2
    /\ Len(o_invoked) <= 1
    /\ o_invoked # <<>> =>
          /\ FirstRequested
          /\ o_invoked[1] = o_initial[1].tool_calls[1].name
    /\ (FirstRequested /\ o_trace # <<>>) =>
          /\ o_trace[1].tool_selected = o_initial[1].tool_calls[1].name
          /\ o_trace[1].tool_args = o_initial[1].tool_calls[1].args

\* a call has returned whose first response requested two different
\* capabilities: the first was executed, the language capability ran twice
C27_Witness ==
    /\ o_pc = "returned"
    /\ FirstRequested
    /\ Len(o_initial[1].tool_calls) = 2
    /\ o_initial[1].tool_calls[1].name # o_initial[1].tool_calls[2].name
    /\ o_initial[1].tool_calls[2].name \in orch_tools
    /\ Len(o_invoked) = 1
    /\ o_llm_calls = 2

\* book_meeting_tool is not running: it was not called, has returned or has raised
BookingEnded == b_pc \in {"idle", "returned", "raised"}

\* C28: book_meeting_tool leaves no temporary script behind: whenever no call
\* is under way (before a call, after a return and after an exception of the
\* write or of the launch) the number of temporary scripts on disk is zero,
\* after any sequence of bookings.
C28_NoLeftoverScript ==
    /\ b_tmp \in {0, 1}
    /\ BookingEnded => b_tmp = 0

\* a booking whose side process could not be launched has raised after the
\* script was created and written
C28_Witness ==
    /\ b_pc = "raised"
    /\ b_proc = "launch_failed"
    /\ b_payload # <<>>
    /\ creds

\* C29: without the credential artifact book_meeting_tool returns the
\* structured error with status 'error' for every argument record, and it
\* never creates a temporary script or launches the side process.
C29_NoCredsNoSideEffect ==
    ~creds =>
        /\ b_pc \in {"idle", "payload", "returned"}
        /\ b_tmp = 0
        /\ b_proc = "none"
        /\ b_pc = "returned" =>
              /\ b_result = <<CredsMissingReturn>>
              /\ b_result[1].status = "error"

\* a booking whose start time carries an offset and whose end time carries
\* none has returned without the credential artifact
C29_Witness ==
    /\ ~creds
    /\ b_pc = "returned"
    /\ b_args[1].start_time = TsSeconds \o OffMinus5
    /\ b_args[1].end_time = TsMinutes
    /\ b_result[1].status = "error"

\* C30: add_tz is idempotent: for every timestamp a booking is called with,
\* normalizing the normalized value returns it unchanged, so the start and
\* end of the payload receive no second offset.
C30_AddTzIdempotent ==
    /\ b_args # <<>> =>
          /\ add_tz(add_tz(b_args[1].start_time)) = add_tz(b_args[1].start_time)
          /\ add_tz(add_tz(b_args[1].end_time)) = add_tz(b_args[1].end_time)
    /\ b_payload # <<>> =>
          /\ b_payload[1].start = add_tz(b_args[1].start_time)
          /\ add_tz(b_payload[1].start) = b_payload[1].start
          /\ add_tz(b_payload[1].end) = b_payload[1].end

\* a payload has been built from a start time without designator, which got
\* the local offset, and an end time that ends in Z, which was left alone
C30_Witness ==
    /\ b_payload # <<>>
    /\ b_args[1].start_time = TsSeconds
    /\ b_payload[1].start = TsSeconds \o OffPlus5
    /\ b_args[1].end_time = TsMinutes \o <<"Z">>
    /\ b_payload[1].end = b_args[1].end_time
====
